---- MODULE Spec2Model ----
(***************************************************************************)
(* Model of the Ada elaboration-circularity scanner (scanner.py).          *)
(*                                                                         *)
(* Names (package names, file names) are sequences of tokens: a token is   *)
(* a maximal run of word characters, or one of the single characters "."   *)
(* and "*".  "ada.text_io" is <<"ada", ".", "text_io">>.  All names are    *)
(* already lower case (the code lower-cases every line and file name).     *)
(*                                                                         *)
(* A Python dict is a sequence of [k, v] records in insertion order; a     *)
(* list or deque is a sequence.                                            *)
(*                                                                         *)
(* Spec      scan from the return of parse_dir on, on any dictionary       *)
(* SpecBuild build_with_dictionary on any sequence of directory entries    *)
(* SpecTidy  the two tidy passes of scan on any raw list                   *)
(***************************************************************************)
EXTENDS Naturals, Sequences, FiniteSets

VARIABLES
    pc,               \* position in scan / build_with_dictionary
    with_data,        \* the dict package -> list of with'd packages
    nfiles,           \* number of directory entries parse_dir has visited
    last_file,        \* the directory entry parse_dir visited last
    parsed,           \* with_data as parse_dir left it (before empty entries are deleted)
    withs_json,       \* contents of withs.json
    next_key,         \* position of the key iteration of scan's search loop
    pushes,           \* packages appended to with_stack by the last parse_withs call
    circular_stacks,  \* the list of circular stacks
    circular_json     \* contents of circular.json

vars == <<pc, with_data, nfiles, last_file, parsed, withs_json, next_key,
          pushes, circular_stacks, circular_json>>

----------------------------------------------------------------------------
(* Bounds *)

MaxFiles == 2       \* directory entries visited by parse_dir
MaxLines == 2       \* relevant lines (with / separate) per file
MaxKeys == 3        \* keys of a dictionary the search starts from
MaxDeps == 2        \* length of a with list of such a dictionary
MaxEdges == 5       \* withs of such a dictionary, all lists together
MaxRaw == 3         \* entries of a raw list handed to the tidy passes
MaxEntryLen == 3    \* length of such an entry

----------------------------------------------------------------------------
(* Sequence and dict helpers *)

Range(s) == {s[i] : i \in 1..Len(s)}

InSeq(x, s) == \E i \in 1..Len(s) : s[i] = x

NoDup(s) == \A i, j \in 1..Len(s) : s[i] = s[j] => i = j

\* first position of x in s (x must occur)
IndexOf(x, s) == CHOOSE i \in 1..Len(s) : s[i] = x /\ \A j \in 1..(i-1) : s[j] # x

\* list.remove(x): delete the first element equal to x
RemoveFirst(s, x) ==
    LET r == IndexOf(x, s)
    IN [i \in 1..(Len(s)-1) |-> IF i < r THEN s[i] ELSE s[i+1]]

Keys(d) == [i \in 1..Len(d) |-> d[i].k]

HasKey(d, key) == \E i \in 1..Len(d) : d[i].k = key

Get(d, key) == d[CHOOSE i \in 1..Len(d) : d[i].k = key].v

\* d[key] = value: replace in place, or insert at the end
Put(d, key, value) ==
    IF HasKey(d, key)
    THEN [i \in 1..Len(d) |-> IF d[i].k = key THEN [k |-> key, v |-> value] ELSE d[i]]
    ELSE Append(d, [k |-> key, v |-> value])

\* all sequences over S of length lo..hi
SeqsOf(S, lo, hi) == UNION {[1..n -> S] : n \in lo..hi}

----------------------------------------------------------------------------
(* Lists and RegularExpressions *)

STANDARD_PACKAGES == {"ada", "system", "gnat", "unchecked_deallocation", "text_io"}

IsWord(t) == t \notin {".", "*"}

\* RE_ADA_FILE applied to the suffix of a file name
IsAdaFile(name) ==
    /\ Len(name) >= 2
    /\ name[Len(name)-1] = "."
    /\ name[Len(name)] \in {"ada", "adb", "ads"}

\* Path.stem: the name without its last suffix
Stem(name) == SubSeq(name, 1, Len(name) - 2)

\* RE_FULL_PACKAGE_NAME: the name without ".ad?" and without a ".1"/".2" before it
FullPackageName(name) ==
    LET s == Stem(name)
    IN IF Len(s) >= 3 /\ s[Len(s)-1] = "." /\ s[Len(s)] \in {"1", "2"}
       THEN SubSeq(s, 1, Len(s) - 2)
       ELSE s

\* RE_ROOT_PACKAGE_NAME: the leading run of word characters
RootPackageName(stem) == <<stem[1]>>

\* RE_WITH_CHILD_PACKAGE, group 1: the word run that ends at the first ".",
\* "" when there is no "." (child_root keeps its initial value)
ChildRoot(with_match) ==
    IF ~InSeq(".", with_match) THEN ""
    ELSE LET i == IndexOf(".", with_match)
         IN IF i > 1 /\ IsWord(with_match[i-1]) THEN with_match[i-1] ELSE ""

\* with_match in Lists.STANDARD_PACKAGES
IsStandard(with_match) == Len(with_match) = 1 /\ with_match[1] \in STANDARD_PACKAGES

----------------------------------------------------------------------------
(* build_with_dictionary *)

\* Keep without the test of child_root (faulty variant)
NoChildRootKeep(with_match, withs_list) ==
    /\ ~InSeq(with_match, withs_list)
    /\ ~IsStandard(with_match)

\* the condition under which parse_file appends with_match
Keep(with_match, withs_list) ==
    /\ ~InSeq(with_match, withs_list)
    /\ ChildRoot(with_match) \notin STANDARD_PACKAGES
    /\ ~IsStandard(with_match)

RECURSIVE ParseLines(_, _, _)
ParseLines(lines, i, withs_list) ==
    IF i > Len(lines) THEN [withs_list |-> withs_list, is_subunit |-> FALSE]
    ELSE LET line == lines[i]
             wl == IF line.kind = "with" /\ Keep(line.name, withs_list)
                   THEN Append(withs_list, line.name)
                   ELSE withs_list
         IN IF line.kind = "separate"
            THEN [withs_list |-> wl, is_subunit |-> TRUE]
            ELSE ParseLines(lines, i + 1, wl)

ParseFile(f) == ParseLines(f.lines, 1, <<>>)

\* PackageOf without the redirection of subunits to their root (faulty variant)
FullNamePackage(f, is_subunit) == FullPackageName(f.name)

\* the package a file's withs are entered under
PackageOf(f, is_subunit) ==
    IF is_subunit THEN RootPackageName(Stem(f.name)) ELSE FullPackageName(f.name)

\* for w in withs_list: append w to list unless present
RECURSIVE Merge(_, _, _)
Merge(list, withs_list, i) ==
    IF i > Len(withs_list) THEN list
    ELSE Merge(IF InSeq(withs_list[i], list) THEN list ELSE Append(list, withs_list[i]),
               withs_list, i + 1)

ParseAdaFileResult(d, f) ==
    LET p == ParseFile(f)
        package == PackageOf(f, p.is_subunit)
        withs_list == IF InSeq(package, p.withs_list)
                      THEN RemoveFirst(p.withs_list, package)
                      ELSE p.withs_list
    IN IF HasKey(d, package)
       THEN Put(d, package, Merge(Get(d, package), withs_list, 1))
       ELSE Put(d, package, withs_list)

\* RemoveEmpty that also deletes the lists of length one (faulty variant)
RemoveEmptyOffByOne(d) == SelectSeq(d, LAMBDA e : Len(e.v) > 1)

\* delete every key whose list is empty
RemoveEmpty(d) == SelectSeq(d, LAMBDA e : Len(e.v) # 0)

----------------------------------------------------------------------------
(* parse_withs *)

\* withs == with_stack[0]
Closes(withs, with_stack) == withs = with_stack[1]

\* Record without the test withs == with_stack[0] (faulty variant)
RecordAnyLoop(acc, with_stack, withs) ==
    [acc EXCEPT !.stacks = Append(@, Append(with_stack, withs))]

\* the branch taken when withs is already in with_stack
Record(acc, with_stack, withs) ==
    IF Closes(withs, with_stack)
    THEN [acc EXCEPT !.stacks = Append(@, Append(with_stack, withs))]
    ELSE acc

RECURSIVE RecursiveParseWiths(_, _, _, _)
RECURSIVE ForWiths(_, _, _, _, _)

\* acc = [stacks, pushes]: circular_stacks so far and the packages pushed so far
RecursiveParseWiths(d, start, with_stack, acc) ==
    IF HasKey(d, start) THEN ForWiths(d, Get(d, start), 1, with_stack, acc) ELSE acc

ForWiths(d, list, i, with_stack, acc) ==
    IF i > Len(list) THEN acc
    ELSE LET withs == list[i]
             acc1 == IF InSeq(withs, with_stack)
                     THEN Record(acc, with_stack, withs)
                     ELSE IF HasKey(d, withs)
                          THEN RecursiveParseWiths(d, withs, Append(with_stack, withs),
                                                   [acc EXCEPT !.pushes = @ \cup {withs}])
                          ELSE acc
         IN ForWiths(d, list, i + 1, with_stack, acc1)

ParseWiths(start, d) ==
    RecursiveParseWiths(d, start, <<start>>, [stacks |-> <<>>, pushes |-> {}])

----------------------------------------------------------------------------
(* scan: search loop *)

\* ClearEntry that clears nothing (faulty variant)
KeepEntry(d, key) == d

\* ClearEntry that clears every entry (faulty variant)
ClearAllEntries(d, key) == [i \in 1..Len(d) |-> [k |-> d[i].k, v |-> <<>>]]

\* with_data[key] = []
ClearEntry(d, key) == Put(d, key, <<>>)

\* the search loop from key number i on: the raw list of circular stacks
RECURSIVE SearchLoop(_, _, _)
SearchLoop(d, i, stacks) ==
    IF i > Len(d) THEN stacks
    ELSE SearchLoop(ClearEntry(d, d[i].k), i + 1, stacks \o ParseWiths(d[i].k, d).stacks)

----------------------------------------------------------------------------
(* scan: tidy passes *)

\* first tidy pass: a for loop over the list that removes from it
RECURSIVE TidyPart1(_, _)
TidyPart1(list, i) ==
    IF i > Len(list) THEN list
    ELSE LET cs == list[i]
         IN IF cs[1] # cs[Len(cs)]
            THEN TidyPart1(RemoveFirst(list, cs), i + 1)
            ELSE TidyPart1(list, i + 1)

\* cs.pop() for every entry
PopAll(list) == [i \in 1..Len(list) |-> SubSeq(list[i], 1, Len(list[i]) - 1)]

\* deque.rotate(1)
Rotate1(ts) == IF Len(ts) = 0 THEN ts ELSE <<ts[Len(ts)]>> \o SubSeq(ts, 1, Len(ts) - 1)

RECURSIVE RotateBy(_, _)
RotateBy(ts, n) == IF n = 0 THEN ts ELSE RotateBy(Rotate1(ts), n - 1)

\* some rotation of ts by 1..len(ts) equals cs
RotatesTo(ts, cs) == \E n \in 1..Len(ts) : RotateBy(ts, n) = cs

\* inner loop for one cs: the first ts that rotates to cs is left rotated
\* (equal to cs), then list.remove deletes the first entry equal to it
RECURSIVE DedupInner(_, _, _)
DedupInner(list, cs, j) ==
    IF j > Len(list) THEN list
    ELSE LET ts == list[j]
         IN IF cs = ts THEN DedupInner(list, cs, j + 1)
            ELSE IF RotatesTo(ts, cs)
                 THEN RemoveFirst([list EXCEPT ![j] = cs], cs)
                 ELSE DedupInner(list, cs, j + 1)

RECURSIVE DedupOuter(_, _)
DedupOuter(list, i) ==
    IF i > Len(list) THEN list
    ELSE DedupOuter(DedupInner(list, list[i], 1), i + 1)

\* cs.append(cs[0]) for every entry
CloseAll(list) == [i \in 1..Len(list) |-> Append(list[i], list[i][1])]

TidyPart2(list) == CloseAll(DedupOuter(PopAll(list), 1))

----------------------------------------------------------------------------
(* Inputs *)

a == <<"a">>
b == <<"b">>
c == <<"c">>
e == <<"e">>

\* the packages of the dictionaries the search is run on
Units == {a, b, c, e}

\* the packages of the raw lists the tidy passes are run on
TidyUnits == {a, b, c}

\* names that with lines mention
WithNames == {a, b, <<"a", ".", "s">>, <<"ada">>, <<"ada", ".", "s">>}

\* names of directory entries
FileNames == {<<"a", ".", "1", ".", "ada">>, <<"a", ".", "s", ".", "adb">>,
              <<"a", ".", "txt">>}

FileLines == {[kind |-> "with", name |-> n] : n \in WithNames}
                 \cup {[kind |-> "separate", name |-> <<>>]}

Files == {[name |-> n, lines |-> l] : n \in FileNames, l \in SeqsOf(FileLines, 0, MaxLines)}

NoFile == [name |-> <<>>, lines |-> <<>>]

\* with lists as parse_ada_file builds them: no duplicate
DepLists == {l \in SeqsOf(Units, 0, MaxDeps) : NoDup(l)}

KeySeqs == {ks \in SeqsOf(Units, 0, MaxKeys) : NoDup(ks)}

\* dictionaries as parse_dir leaves them, with the keys ks from the i-th on
\* and at most budget withs: no key in its own list
RECURSIVE GraphsOn(_, _, _)
GraphsOn(ks, i, budget) ==
    IF i > Len(ks) THEN {<<>>}
    ELSE UNION {{<<[k |-> ks[i], v |-> l]>> \o g : g \in GraphsOn(ks, i + 1, budget - Len(l))} :
                   l \in {x \in DepLists : Len(x) <= budget /\ ~InSeq(ks[i], x)}}

RawEntries == SeqsOf(TidyUnits, 2, MaxEntryLen)

\* json.dump(with_data): an object, package -> list
Dump(d) == [key \in Range(Keys(d)) |-> Get(d, key)]

----------------------------------------------------------------------------
(* Actions *)

\* one iteration of the loop of parse_dir over the directory's entries
ParseDirEntry(f) ==
    /\ pc = "parse_dir"
    /\ nfiles < MaxFiles
    /\ nfiles' = nfiles + 1
    /\ last_file' = f
    /\ with_data' = IF IsAdaFile(f.name) THEN ParseAdaFileResult(with_data, f) ELSE with_data
    /\ UNCHANGED <<pc, parsed, withs_json, next_key, pushes, circular_stacks, circular_json>>

\* build_with_dictionary after parse_dir returned
Finalize ==
    /\ pc = "parse_dir"
    /\ parsed' = with_data
    /\ with_data' = RemoveEmpty(with_data)
    /\ pc' = "built"
    /\ UNCHANGED <<nfiles, last_file, withs_json, next_key, pushes, circular_stacks, circular_json>>

SaveWiths ==
    /\ pc = "built"
    /\ withs_json' = Dump(with_data)
    /\ next_key' = 1
    /\ pc' = "search"
    /\ UNCHANGED <<with_data, nfiles, last_file, parsed, pushes, circular_stacks, circular_json>>

\* one iteration of the search loop of scan
Search ==
    /\ pc = "search"
    /\ next_key <= Len(with_data)
    /\ LET key == with_data[next_key].k
           r == ParseWiths(key, with_data)
       IN /\ circular_stacks' = circular_stacks \o r.stacks
          /\ pushes' = r.pushes
          /\ with_data' = ClearEntry(with_data, key)
    /\ next_key' = next_key + 1
    /\ UNCHANGED <<pc, nfiles, last_file, parsed, withs_json, circular_json>>

DumpCircular ==
    /\ pc = "search"
    /\ next_key > Len(with_data)
    /\ circular_json' = circular_stacks
    /\ pc' = "tidy1"
    /\ UNCHANGED <<with_data, nfiles, last_file, parsed, withs_json, next_key, pushes,
                   circular_stacks>>

Tidy1 ==
    /\ pc = "tidy1"
    /\ circular_stacks' = TidyPart1(circular_stacks, 1)
    /\ pc' = "tidy2"
    /\ UNCHANGED <<with_data, nfiles, last_file, parsed, withs_json, next_key, pushes,
                   circular_json>>

Tidy2 ==
    /\ pc = "tidy2"
    /\ circular_stacks' = TidyPart2(circular_stacks)
    /\ pc' = "done"
    /\ UNCHANGED <<with_data, nfiles, last_file, parsed, withs_json, next_key, pushes,
                   circular_json>>

----------------------------------------------------------------------------
(* Specifications *)

\* scan from the moment parse_dir has returned, on any dictionary
Init ==
    /\ pc = "parse_dir"
    /\ \E ks \in KeySeqs : with_data \in GraphsOn(ks, 1, MaxEdges)
    /\ nfiles = 0
    /\ last_file = NoFile
    /\ parsed = <<>>
    /\ withs_json = <<>>
    /\ next_key = 1
    /\ pushes = {}
    /\ circular_stacks = <<>>
    /\ circular_json = <<>>

Next == Finalize \/ SaveWiths \/ Search \/ DumpCircular \/ Tidy1 \/ Tidy2

Spec == Init /\ [][Next]_vars

\* build_with_dictionary on any directory
InitBuild ==
    /\ pc = "parse_dir"
    /\ with_data = <<>>
    /\ nfiles = 0
    /\ last_file = NoFile
    /\ parsed = <<>>
    /\ withs_json = <<>>
    /\ next_key = 1
    /\ pushes = {}
    /\ circular_stacks = <<>>
    /\ circular_json = <<>>

NextBuild == (\E f \in Files : ParseDirEntry(f)) \/ Finalize

SpecBuild == InitBuild /\ [][NextBuild]_vars

\* the tidy passes of scan on any raw list
InitTidy ==
    /\ pc = "tidy1"
    /\ with_data = <<>>
    /\ nfiles = 0
    /\ last_file = NoFile
    /\ parsed = <<>>
    /\ withs_json = <<>>
    /\ next_key = 1
    /\ pushes = {}
    /\ \E n \in 0..MaxRaw : \E raw \in [1..n -> RawEntries] :
          circular_stacks = raw /\ circular_json = raw

NextTidy == Tidy1 \/ Tidy2

SpecTidy == InitTidy /\ [][NextTidy]_vars

----------------------------------------------------------------------------
(* Vocabulary of the properties *)

\* a recorded cycle without its repeated endpoint
Core(cy) == SubSeq(cy, 1, Len(cy) - 1)

\* y is x started at another (or the same) position
IsRotation(x, y) ==
    /\ Len(x) = Len(y)
    /\ \E n \in 0..(Len(x) - 1) :
          \A i \in 1..Len(x) : y[i] = x[((i - 1 + n) % Len(x)) + 1]

\* u -> v is an edge of the dumped dictionary g
Edge(g, u, v) == u \in DOMAIN g /\ InSeq(v, g[u])

\* the elementary directed cycles of g, as sequences of distinct packages
ElementaryCycles(g) ==
    {cy \in SeqsOf(DOMAIN g, 2, Cardinality(DOMAIN g)) :
        /\ NoDup(cy)
        /\ \A i \in 1..Len(cy) : Edge(g, cy[i], cy[(i % Len(cy)) + 1])}

\* position of u in the key order ks; past the end when u is no key
KeyPos(u, ks) == IF InSeq(u, ks) THEN IndexOf(u, ks) ELSE Len(ks) + 1

\* the search loop has run over every key and the raw list has been dumped
SearchFinished == pc = "tidy1"

----------------------------------------------------------------------------
(* Properties of the search loop and of scan's result (Spec) *)

\* C1: once the search loop has run over every key, each elementary cycle of
\* the finalized graph has a rotation of itself in the raw list of circular
\* stacks; clearing the entries of earlier keys loses no cycle.
C1_SearchComplete ==
    SearchFinished =>
        \A cy \in ElementaryCycles(withs_json) :
            \E i \in 1..Len(circular_json) : IsRotation(Core(circular_json[i]), cy)

\* a cycle was recorded from a later key although one of its members withs a
\* key whose entry had been cleared by an earlier search
C1_Witness ==
    /\ SearchFinished
    /\ \E i \in 1..Len(circular_json) :
          LET cy == circular_json[i]
              ks == Keys(with_data)
          IN \E m \in Range(cy) : \E q \in Range(ks) :
                /\ KeyPos(q, ks) < KeyPos(cy[1], ks)
                /\ Edge(withs_json, m, q)
                /\ withs_json[q] # <<>>

\* C2: every cycle of the final result is an elementary directed cycle of the
\* finalized graph: closed, of length at least 3, without another repeated
\* package, and each consecutive pair is an edge of the graph.
C2_ResultSound ==
    pc = "done" =>
        \A i \in 1..Len(circular_stacks) :
            LET cy == circular_stacks[i]
            IN /\ Len(cy) >= 3
               /\ cy[1] = cy[Len(cy)]
               /\ NoDup(Core(cy))
               /\ \A j \in 1..(Len(cy) - 1) : Edge(withs_json, cy[j], cy[j+1])

\* a cycle is reported while some key of the graph lies on no reported cycle
C2_Witness ==
    /\ pc = "done"
    /\ circular_stacks # <<>>
    /\ \E u \in DOMAIN withs_json :
          \A i \in 1..Len(circular_stacks) : ~InSeq(u, circular_stacks[i])

\* C3: no two cycles of the final result are rotations of one another.
C3_NoRotations ==
    pc = "done" =>
        \A i, j \in 1..Len(circular_stacks) :
            i # j => ~IsRotation(Core(circular_stacks[i]), Core(circular_stacks[j]))

\* two cycles that share a package are reported
C3_Witness ==
    /\ pc = "done"
    /\ \E i, j \in 1..Len(circular_stacks) :
          /\ i # j
          /\ Range(circular_stacks[i]) \cap Range(circular_stacks[j]) # {}

\* C4: every cycle of the final result starts at its member that comes first
\* in the key order, and the cycles are ordered by their starting keys.
C4_StartsAtFirstKey ==
    pc = "done" =>
        LET ks == Keys(with_data)
        IN /\ \A i \in 1..Len(circular_stacks) :
                 \A j \in 1..Len(circular_stacks[i]) :
                     KeyPos(circular_stacks[i][1], ks) <= KeyPos(circular_stacks[i][j], ks)
           /\ \A i, j \in 1..Len(circular_stacks) :
                 i < j => KeyPos(circular_stacks[i][1], ks) <= KeyPos(circular_stacks[j][1], ks)

\* cycles are reported from two different starting keys
C4_Witness ==
    /\ pc = "done"
    /\ Len(circular_stacks) >= 2
    /\ circular_stacks[1][1] # circular_stacks[Len(circular_stacks)][1]

\* C7: the result of scan equals the result of the search loop and the tidy
\* passes run on the dictionary with its empty entries kept.
C7_FinalizeKeepsResult ==
    pc = "done" =>
        circular_stacks = TidyPart2(TidyPart1(SearchLoop(parsed, 1, <<>>), 1))

\* a cycle is reported, and a member of it withs a package whose entry was
\* empty and has been deleted
C7_Witness ==
    /\ pc = "done"
    /\ \E i \in 1..Len(circular_stacks) : \E n \in 1..Len(parsed) :
          /\ parsed[n].v = <<>>
          /\ \E m \in Range(circular_stacks[i]) : Edge(Dump(parsed), m, parsed[n].k)

\* C8: every package that the last search pushed on the with stack has at
\* least one with in the dictionary.
C8_PushedHaveWiths ==
    \A d \in pushes : HasKey(with_data, d) /\ Get(with_data, d) # <<>>

----------------------------------------------------------------------------
(* Properties of build_with_dictionary (SpecBuild) *)

\* the part of a name before its first "."
RootComponent(w) == IF InSeq(".", w) THEN SubSeq(w, 1, IndexOf(".", w) - 1) ELSE w

\* the name itself or its root component is a standard package
Ignored(w) ==
    \/ Len(w) = 1 /\ w[1] \in STANDARD_PACKAGES
    \/ Len(RootComponent(w)) = 1 /\ RootComponent(w)[1] \in STANDARD_PACKAGES

\* the file has a separate statement
HasSeparate(f) == \E i \in 1..Len(f.lines) : f.lines[i].kind = "separate"

\* the names the file withs in its context clause (before any separate
\* statement) that are not ignored
Harvested(f) ==
    {f.lines[i].name : i \in {n \in 1..Len(f.lines) :
        /\ f.lines[n].kind = "with"
        /\ \A m \in 1..(n - 1) : f.lines[m].kind # "separate"
        /\ ~Ignored(f.lines[n].name)}}

\* the root unit of a file: the leading word of its name
RootOf(f) == <<f.name[1]>>

\* C5: in the dictionary build_with_dictionary returns, every key has a
\* non-empty list without a duplicate, without the key itself and without a
\* name that is, or whose root component is, a standard package.
C5_GraphInvariants ==
    pc = "built" =>
        \A i \in 1..Len(with_data) :
            /\ with_data[i].v # <<>>
            /\ NoDup(with_data[i].v)
            /\ ~InSeq(with_data[i].k, with_data[i].v)
            /\ \A w \in Range(with_data[i].v) : ~Ignored(w)

\* the dictionary is returned non-empty after two files, the last of which
\* withs a child of a standard package and not only that
C5_Witness ==
    /\ pc = "built"
    /\ with_data # <<>>
    /\ nfiles >= 2
    /\ IsAdaFile(last_file.name)
    /\ Harvested(last_file) # {}
    /\ \E i \in 1..Len(last_file.lines) :
          last_file.lines[i] = [kind |-> "with", name |-> <<"ada", ".", "s">>]

\* d2 is d with the harvested withs of subunit f entered under f's root
AttributedToRoot(d, d2, f) ==
    LET root == RootOf(f)
        old == IF HasKey(d, root) THEN Get(d, root) ELSE <<>>
    IN /\ HasKey(d2, root)
       /\ Range(Get(d2, root)) = Range(old) \cup (Harvested(f) \ {root})
       /\ NoDup(Get(d2, root))
       /\ SubSeq(Get(d2, root), 1, Len(old)) = old
       /\ \A i \in 1..Len(d2) : d2[i].k # root => i <= Len(d) /\ d[i] = d2[i]
       /\ \A i \in 1..Len(d) : d[i].k # root => i <= Len(d2) /\ d[i] = d2[i]

\* C6: parsing a file that has a separate statement enters its harvested
\* withs under its root package only (the root itself dropped, nothing
\* entered twice); every other entry, that of the subunit's own name
\* included, is neither created nor changed.
C6_SubunitAttribution ==
    [][(nfiles' = nfiles + 1 /\ IsAdaFile(last_file'.name) /\ HasSeparate(last_file'))
          => AttributedToRoot(with_data, with_data', last_file')]_vars

\* a subunit with a name of its own was parsed and its withs were merged
\* into an entry of its root that a file before it had created
C6_Witness ==
    /\ pc = "parse_dir"
    /\ nfiles = 2
    /\ IsAdaFile(last_file.name)
    /\ HasSeparate(last_file)
    /\ FullPackageName(last_file.name) # RootOf(last_file)
    /\ Harvested(last_file) \ {RootOf(last_file)} # {}
    /\ HasKey(with_data, RootOf(last_file))
    /\ ~HasKey(with_data, FullPackageName(last_file.name))
    /\ Range(Get(with_data, RootOf(last_file))) # Harvested(last_file) \ {RootOf(last_file)}

----------------------------------------------------------------------------
(* Properties of the tidy passes (SpecTidy) *)

Closed(cy) == cy[1] = cy[Len(cy)]

\* C9: after the first tidy pass the list holds the entries of the raw list
\* whose first and last elements are equal, and only those.
C9_MalformedRemoved ==
    pc = "tidy2" => circular_stacks = SelectSeq(circular_json, Closed)

\* the raw list is a list of distinct cycles as the search records them
RawWellFormed(raw) ==
    /\ \A i \in 1..Len(raw) : Len(raw[i]) >= 3 /\ Closed(raw[i]) /\ NoDup(Core(raw[i]))
    /\ NoDup(raw)

\* the entries of raw that are no rotation of an entry before them
RECURSIVE FirstOfEachClass(_, _, _)
FirstOfEachClass(raw, i, out) ==
    IF i > Len(raw) THEN out
    ELSE IF \E j \in 1..Len(out) : IsRotation(Core(out[j]), Core(raw[i]))
         THEN FirstOfEachClass(raw, i + 1, out)
         ELSE FirstOfEachClass(raw, i + 1, Append(out, raw[i]))

\* C10: on a raw list of well-formed cycles the tidy passes keep the first
\* entry of every rotation class, unchanged and in the order of the raw list.
C10_FirstOfClassKept ==
    (pc = "done" /\ RawWellFormed(circular_json)) =>
        circular_stacks = FirstOfEachClass(circular_json, 1, <<>>)

====
